---- MODULE Spec2Model ----
(***************************************************************************)
(* A model of druid-graphs' numeric core: Range (src/src/range.rs) and the *)
(* axis tick scaling of src/src/axes.rs (calc_tick_spacing, count_ticks,   *)
(* Ticker and TickerIter).                                                 *)
(*                                                                         *)
(* f64 values are modelled as binary floating-point numbers with Precision *)
(* significant bits: a finite value is m * 2^x with m odd (or zero), every *)
(* arithmetic result is rounded to nearest, ties to even, as IEEE-754      *)
(* does, and NaN, +inf and -inf are separate values with the IEEE-754      *)
(* comparison and arithmetic rules.  f64 itself has 53 significant bits;   *)
(* here the smallest positive value is 2^-TinyExp, below which results are *)
(* rounded as IEEE-754 rounds subnormal values (down to zero at last); the *)
(* exponent is unbounded above (no overflow to infinity), and -0.0 is not  *)
(* distinguished from +0.0.                                                *)
(***************************************************************************)
EXTENDS Integers, Sequences, FiniteSets, TLC

VARIABLES
    \* ---- a Range object and the calls made on it (range.rs) ----
    range,      \* Option<Range>: the Range value the program holds
    r_op,       \* the last call made: [name, args]
    r_ret,      \* Option<bool>: what the last extend_to returned
    r_panicked, \* an assertion of range.rs failed; the program aborted
    \* ---- a Ticker and one iteration of it (axes.rs) ----
    debug_assertions, \* cfg!(debug_assertions): debug_assert! is compiled in
    t_pc,       \* "start" | "ticker" | "iter" | "panic" | "hang"
    t_range,    \* the data range handed to Ticker::new
    t_target,   \* the target_num_points handed to Ticker::new
    ticker,     \* Option<Ticker>
    iter,       \* Option<TickerIter>
    yielded,    \* the Ticks the iterator returned so far, in order
    t_done,     \* TickerIter::next has returned None
    first_run,  \* Option<Vec<Tick>>: the Ticks of a finished earlier iteration
    \* ---- one call of a free function of axes.rs ----
    c_range,    \* the range the call is made on
    c_call,     \* the call made, its other arguments and its results: [fn, ...]
    \* ---- a Scale and the calls made on it (axes.rs) ----
    s_pc,       \* "new" | "live" | "panic" | "hang"
    scale,      \* Option<Scale>
    s_op,       \* the last call made on the Scale: [name, ...]
    \* ---- a LineChart widget and its data (line_chart.rs) ----
    l_pc,       \* "new" | "added" | "panic" | "hang"
    l_data,     \* the LineChartData the application holds
    line_chart, \* the LineChart: data_range_x, x_scale, data_range_y, y_scale
    l_op,       \* the last callback druid made: [name, ...]
    \* ---- a PieChart widget and its data (pie_chart.rs) ----
    p_pc,       \* "new" | "added"
    p_data,     \* the PieChartData the application holds: category_labels
    pie_chart,  \* the PieChart: category_layouts
    p_op,       \* the last callback druid made: [name, ...]
    \* ---- one call of quantile, as BoxPlot::paint makes it (box_plot.rs) ----
    b_data,     \* the sorted data_points
    b_call      \* the call made and its outcome: [fn, ...]

r_vars == <<range, r_op, r_ret, r_panicked>>
t_vars == <<debug_assertions, t_pc, t_range, t_target, ticker, iter, yielded, t_done, first_run>>
c_vars == <<c_range, c_call>>
s_vars == <<s_pc, scale, s_op>>
l_vars == <<l_pc, l_data, line_chart, l_op>>
p_vars == <<p_pc, p_data, pie_chart, p_op>>
b_vars == <<b_data, b_call>>
w_vars == <<s_vars, l_vars, p_vars, b_vars>>
vars == <<r_vars, t_vars, c_vars, w_vars>>

(***************************************************************************)
(* Option<T>                                                               *)
(***************************************************************************)
None == [some |-> FALSE]
Some(x) == [some |-> TRUE, v |-> x]
\* A let binding: F of the value v, which is computed once
With(v, F(_)) == F(v)

(***************************************************************************)
(* f64                                                                     *)
(***************************************************************************)
\* The number of significant bits of a float of the model (53 for f64).
Precision == 12
\* The smallest positive float is 2^-TinyExp (1074 for f64).
TinyExp == 34

Abs(n) == IF n < 0 THEN -n ELSE n
Sgn(n) == IF n < 0 THEN -1 ELSE IF n > 0 THEN 1 ELSE 0
Min2(a, b) == IF a < b THEN a ELSE b
Max2(a, b) == IF a < b THEN b ELSE a

RECURSIVE Bits(_)
\* The number of bits of the integer n >= 0.
Bits(n) == IF n = 0 THEN 0 ELSE 1 + Bits(n \div 2)

NAN == [k |-> "nan", m |-> 0, x |-> 0]
INFINITY == [k |-> "inf", m |-> 1, x |-> 0]
NEG_INFINITY == [k |-> "inf", m |-> -1, x |-> 0]
Zero == [k |-> "fin", m |-> 0, x |-> 0]

RECURSIVE Norm(_, _)
\* The finite value m * 2^x, written with m odd.
Norm(m, x) ==
    IF m = 0 THEN Zero
    ELSE IF m % 2 = 0 THEN Norm(m \div 2, x + 1)
    ELSE [k |-> "fin", m |-> m, x |-> x]

\* Round to nearest, ties to even: the float nearest to s * (m + f) * 2^x for
\* an integer m >= 0 and a fraction 0 <= f < 1 that is non-zero iff sticky.
\* The result keeps Precision bits and no bit below 2^-TinyExp.  (A caller
\* with a non-zero fraction passes enough bits in m for some to be dropped.)
Round(s, m, sticky, x) ==
    LET drop == Max2(Bits(m) - Precision, -TinyExp - x)
    IN  IF drop <= 0 THEN Norm(s * m, x)
        ELSE IF drop > Bits(m) THEN Zero
        ELSE LET q == m \div 2^drop
                 r == m % 2^drop
                 half == 2^(drop - 1)
                 up == r > half \/ (r = half /\ (sticky \/ q % 2 = 1))
             IN  Norm(s * (IF up THEN q + 1 ELSE q), x + drop)

\* `i as f64`, and the value of an integer literal such as 2. or 10.
Int2F(i) == IF i = 0 THEN Zero ELSE Round(Sgn(i), Abs(i), FALSE, 0)
One == Int2F(1)

is_nan(a) == a.k = "nan"
is_finite(a) == a.k = "fin"
Sign(a) == Sgn(a.m)
Inf(s) == IF s < 0 THEN NEG_INFINITY ELSE INFINITY

\* The exponent of the leading bit of a finite non-zero a: 2^Top <= |a| < 2^(Top+1).
Top(a) == a.x + Bits(Abs(a.m)) - 1

\* The order of |a| and |b|, finite and non-zero: -1, 0 or 1.
CmpMag(a, b) ==
    IF Top(a) # Top(b) THEN (IF Top(a) < Top(b) THEN -1 ELSE 1)
    ELSE LET x0 == Min2(a.x, b.x)
         IN  Sgn(Abs(a.m) * 2^(a.x - x0) - Abs(b.m) * 2^(b.x - x0))

\* The order of two finite values: -1, 0 or 1.
Cmp(a, b) ==
    IF Sign(a) # Sign(b) THEN Sgn(Sign(a) - Sign(b))
    ELSE IF Sign(a) = 0 THEN 0
    ELSE Sign(a) * CmpMag(a, b)

\* a < b: false when either side is NaN.
Lt(a, b) ==
    /\ ~is_nan(a)
    /\ ~is_nan(b)
    /\ CASE a.k = "fin" /\ b.k = "fin" -> Cmp(a, b) < 0
         [] a.k = "inf" /\ b.k = "inf" -> a.m < b.m
         [] a.k = "inf" -> a.m < 0
         [] OTHER -> b.m > 0

Gt(a, b) == Lt(b, a)
\* a == b: false when either side is NaN.
Eq(a, b) == ~is_nan(a) /\ ~is_nan(b) /\ a = b
Le(a, b) == Lt(a, b) \/ Eq(a, b)
Ge(a, b) == Le(b, a)

Neg(a) == IF is_nan(a) THEN NAN ELSE [a EXCEPT !.m = -a.m]
FAbs(a) == IF is_nan(a) THEN NAN ELSE [a EXCEPT !.m = Abs(a.m)]

\* a + b.  An operand below a quarter of the other's unit in the last place
\* does not change the rounded sum.
Add(a, b) ==
    CASE is_nan(a) \/ is_nan(b) -> NAN
      [] a.k = "inf" /\ b.k = "inf" -> IF a.m = b.m THEN a ELSE NAN
      [] a.k = "inf" -> a
      [] b.k = "inf" -> b
      [] a.m = 0 -> b
      [] b.m = 0 -> a
      [] Top(a) > Top(b) + Precision + 2 -> a
      [] Top(b) > Top(a) + Precision + 2 -> b
      [] OTHER ->
            LET x0 == Min2(a.x, b.x)
                sum == a.m * 2^(a.x - x0) + b.m * 2^(b.x - x0)
            IN  IF sum = 0 THEN Zero ELSE Round(Sgn(sum), Abs(sum), FALSE, x0)

Sub(a, b) == Add(a, Neg(b))

Mul(a, b) ==
    CASE is_nan(a) \/ is_nan(b) -> NAN
      [] a.k = "inf" \/ b.k = "inf" ->
            IF Sign(a) * Sign(b) = 0 THEN NAN ELSE Inf(Sign(a) * Sign(b))
      [] a.m = 0 \/ b.m = 0 -> Zero
      [] OTHER -> Round(Sign(a) * Sign(b), Abs(a.m) * Abs(b.m), FALSE, a.x + b.x)

\* a / b: both mantissas are scaled to Precision bits, so that the integer
\* quotient has more than Precision bits and the remainder is the sticky bit.
Div(a, b) ==
    CASE is_nan(a) \/ is_nan(b) -> NAN
      [] a.k = "inf" /\ b.k = "inf" -> NAN
      [] a.k = "inf" -> Inf(IF Sign(b) < 0 THEN -a.m ELSE a.m)
      [] b.k = "inf" -> Zero
      [] b.m = 0 -> IF a.m = 0 THEN NAN ELSE Inf(Sign(a))
      [] a.m = 0 -> Zero
      [] OTHER ->
            LET sa == Precision - Bits(Abs(a.m))
                sb == Precision - Bits(Abs(b.m))
                num == Abs(a.m) * 2^sa * 2^(Precision + 1)
                den == Abs(b.m) * 2^sb
            IN  Round(Sign(a) * Sign(b), num \div den, num % den # 0,
                      a.x - sa - b.x + sb - Precision - 1)

\* The integer value of a finite float that holds an integer (x >= 0).
IntOf(a) == a.m * 2^a.x

\* f64::floor
Floor(a) ==
    IF ~is_finite(a) \/ a.x >= 0 THEN a
    ELSE IF -a.x > Precision THEN (IF a.m < 0 THEN Int2F(-1) ELSE Zero)
    ELSE Norm(a.m \div 2^(-a.x), 0)

RECURSIVE PowMod2(_, _)
\* 2^n modulo d
PowMod2(n, d) == IF n = 0 THEN 1 % d ELSE (2 * PowMod2(n - 1, d)) % d

\* The % operator of f64 (fmod): exact, with the sign of the dividend.
Rem(a, b) ==
    CASE is_nan(a) \/ is_nan(b) -> NAN
      [] a.k = "inf" -> NAN
      [] b.k = "inf" -> a
      [] b.m = 0 -> NAN
      [] a.m = 0 -> Zero
      [] a.x >= b.x ->
            Norm(Sign(a) * ((Abs(a.m) * PowMod2(a.x - b.x, Abs(b.m))) % Abs(b.m)), b.x)
      [] b.x - a.x > Precision -> a
      [] OTHER -> Norm(Sign(a) * (Abs(a.m) % (Abs(b.m) * 2^(b.x - a.x))), a.x)

\* f64::rem_euclid: let r = self % rhs; if r < 0.0 { r + rhs.abs() } else { r }
rem_euclid(a, b) ==
    LET r == Rem(a, b)
    IN  IF Lt(r, Zero) THEN Add(r, FAbs(b)) ELSE r

\* The order of A * 2^a and B * 2^b, for integers A > 0 and B > 0: -1, 0 or 1.
CmpScaled(A, a, B, b) ==
    IF Bits(A) + a # Bits(B) + b THEN (IF Bits(A) + a < Bits(B) + b THEN -1 ELSE 1)
    ELSE LET x0 == Min2(a, b)
         IN  Sgn(A * 2^(a - x0) - B * 2^(b - x0))

\* The order of a finite x > 0 and the real number 10^e = 5^e * 2^e: -1, 0 or 1.
CmpPow10(x, e) ==
    IF e >= 0 THEN CmpScaled(x.m, x.x, 5^e, e)
    ELSE CmpScaled(x.m * 5^(-e), x.x - e, 1, 0)

RECURSIVE FloorLog10(_, _)
\* The integer e with 10^e <= x < 10^(e+1), for a finite x > 0, searched from e.
FloorLog10(x, e) ==
    IF CmpPow10(x, e) < 0 THEN FloorLog10(x, e - 1)
    ELSE IF CmpPow10(x, e + 1) >= 0 THEN FloorLog10(x, e + 1)
    ELSE e

\* Whether log10(x), for x < 10^k and k # 0, rounds to the float k: x is so
\* little below 10^k that the logarithm, k - d/ln(10) for d = 1 - x/10^k, is
\* within half the spacing 2^(-j) of the floats between it and k.  ln(10) is
\* taken as 175/76; d is D / A, with x/10^k written as N * 2^n / (M * 2^m).
Log10RoundsTo(x, k) ==
    LET N == IF k > 0 THEN x.m ELSE x.m * 5^(-k)
        n == IF k > 0 THEN x.x ELSE x.x - k
        M == IF k > 0 THEN 5^k ELSE 1
        m == IF k > 0 THEN k ELSE 0
        x0 == Min2(n, m)
        A == M * 2^(m - x0)
        D == A - N * 2^(n - x0)
        top == Bits(Abs(k)) - 1
        j == IF k > 0 /\ k = 2^top THEN Precision + 1 - top ELSE Precision - top
    IN  /\ Bits(N) + n >= Bits(M) + m - 1
        /\ D <= A \div 2^(j - 2)
        /\ D * 76 <= 175 * (A \div 2^j) + (175 * (A % 2^j)) \div 2^j

\* x.log10().floor()
log10_floor(x) ==
    CASE is_nan(x) -> NAN
      [] Lt(x, Zero) -> NAN
      [] Eq(x, Zero) -> NEG_INFINITY
      [] x.k = "inf" -> INFINITY
      [] OTHER ->
            LET e == FloorLog10(x, 0)
            IN  IF e + 1 # 0 /\ Log10RoundsTo(x, e + 1) THEN Int2F(e + 1) ELSE Int2F(e)

\* 10^-k for an integer k > 0, correctly rounded: 2^-k / 5^k, the quotient
\* taken to one bit more than the result keeps.
Pow10Neg(k) ==
    LET bits == Min2(Bits(5^k) + Precision + 1, TinyExp + 1 - k)
    IN  IF bits < 0 THEN Zero
        ELSE Round(1, 2^bits \div 5^k, 2^bits % 5^k # 0, -bits - k)

\* (10.0f64).powf(e), for e the result of a floor: 10^e correctly rounded.
powf10(e) ==
    CASE is_nan(e) -> NAN
      [] e.k = "inf" -> IF e.m < 0 THEN Zero ELSE INFINITY
      [] e.m >= 0 -> Int2F(10^IntOf(e))
      [] OTHER -> Pow10Neg(-IntOf(e))

\* The literal 0.1
Tenth == Div(One, Int2F(10))

\* `x as usize` for x the result of a floor: the cast saturates, so NaN and
\* every negative value give 0.  (+inf gives usize::MAX, which no call of the
\* model produces: the ranges are finite and the steps positive or NaN.)
as_usize(x) ==
    CASE is_nan(x) -> 0
      [] Lt(x, Zero) -> 0
      [] is_finite(x) -> IntOf(x)
(***************************************************************************)
(* Bounds of the model                                                     *)
(***************************************************************************)
\* Range calls take the finite arguments -MaxVal..MaxVal, NaN, +inf and -inf.
MaxVal == 1
\* from_iter and data_as_range take sequences of at most MaxLen values.
MaxLen == 2

F64Inputs == {NAN, INFINITY, NEG_INFINITY} \cup {Int2F(i) : i \in -MaxVal..MaxVal}
RECURSIVE SeqsUpTo(_, _)
SeqsUpTo(S, n) ==
    IF n = 0 THEN {<<>>}
    ELSE LET shorter == SeqsUpTo(S, n - 1)
         IN  shorter \cup {Append(q, x) : q \in {p \in shorter : Len(p) = n - 1}, x \in S}
F64Seqs == SeqsUpTo(F64Inputs, MaxLen)

(***************************************************************************)
(* Range (range.rs)                                                        *)
(***************************************************************************)
\* The outcome of a call that may panic.
Panic == [panic |-> TRUE]
Ret(x) == [panic |-> FALSE, v |-> x]

Range(min, max) == [min |-> min, max |-> max]

\* Range::new asserting only that the bounds are finite
Range_new_unordered(min, max) ==
    IF is_finite(min) /\ is_finite(max) THEN Ret(Range(min, max)) ELSE Panic

\* Range::new: the assertion, then the struct.
Range_new(min, max) ==
    IF is_finite(min) /\ is_finite(max) /\ Le(min, max)
    THEN Ret(Range(min, max))
    ELSE Panic

\* Range::size
size(r) == Sub(r.max, r.min)

\* Range::set_min asserting only that the bound is finite
set_min_unordered(r, min) ==
    IF is_finite(min) THEN Ret([r EXCEPT !.min = min]) ELSE Panic

\* Range::set_min: the assertion, then the assignment.
set_min(r, min) ==
    IF is_finite(min) /\ Le(min, r.max) THEN Ret([r EXCEPT !.min = min]) ELSE Panic

\* Range::set_max
set_max(r, max) ==
    IF is_finite(max) /\ Ge(max, r.min) THEN Ret([r EXCEPT !.max = max]) ELSE Panic

\* Range::extend_to reporting a change for a value equal to a bound
extend_to_or_equal(r, val) ==
    IF Le(val, r.min) THEN [range |-> [r EXCEPT !.min = val], changed |-> TRUE]
    ELSE IF Ge(val, r.max) THEN [range |-> [r EXCEPT !.max = val], changed |-> TRUE]
    ELSE [range |-> r, changed |-> FALSE]

\* Range::extend_to: the range afterwards and the bool returned.
extend_to(r, val) ==
    IF Lt(val, r.min) THEN [range |-> [r EXCEPT !.min = val], changed |-> TRUE]
    ELSE IF Gt(val, r.max) THEN [range |-> [r EXCEPT !.max = val], changed |-> TRUE]
    ELSE [range |-> r, changed |-> FALSE]

RECURSIVE MinMaxScan(_, _, _)
\* The loop of from_iter over the values left, from the running (min, max).
MinMaxScan(vs, min, max) ==
    IF vs = <<>> THEN <<min, max>>
    ELSE LET v == Head(vs)
             min1 == IF Lt(v, min) THEN v ELSE min
             max1 == IF Gt(v, max) THEN v ELSE max
         IN  MinMaxScan(Tail(vs), min1, max1)

\* Range::from_iter
from_iter(vs) ==
    LET mm == MinMaxScan(vs, INFINITY, NEG_INFINITY)
    IN  Range_new(mm[1], mm[2])

RECURSIVE DataScan(_, _, _)
\* The loop of data_as_range: a NaN returns (NaN, NaN).into() at once.
DataScan(vs, min, max) ==
    IF vs = <<>> THEN <<min, max>>
    ELSE LET v == Head(vs)
         IN  IF is_nan(v) THEN <<NAN, NAN>>
             ELSE DataScan(Tail(vs), IF Lt(v, min) THEN v ELSE min,
                                     IF Gt(v, max) THEN v ELSE max)

\* axes.rs data_as_range; (min, max).into() is Range::new
data_as_range(vs) ==
    LET mm == DataScan(vs, INFINITY, NEG_INFINITY)
    IN  Range_new(mm[1], mm[2])

\* ---- the calls a program makes on its Range ----
Call(name, args) == [name |-> name, args |-> args]

\* A constructor call: a panic aborts the program and leaves what it held.
Construct(name, args, res) ==
    /\ r_op' = Call(name, args)
    /\ r_ret' = None
    /\ r_panicked' = res.panic
    /\ range' = IF res.panic THEN range ELSE Some(res.v)
    /\ UNCHANGED <<t_vars, c_vars, w_vars>>

RNew ==
    /\ ~r_panicked
    /\ \E min \in F64Inputs, max \in F64Inputs :
          Construct("new", <<min, max>>, Range_new(min, max))

\* impl From<(f64, f64)> for Range
RFromTuple ==
    /\ ~r_panicked
    /\ \E min \in F64Inputs, max \in F64Inputs :
          Construct("from_tuple", <<min, max>>, Range_new(min, max))

\* impl From<std::ops::Range<f64>> for Range
RFromStdRange ==
    /\ ~r_panicked
    /\ \E start \in F64Inputs, end \in F64Inputs :
          Construct("from_std_range", <<start, end>>, Range_new(start, end))

RFromIter ==
    /\ ~r_panicked
    /\ \E vs \in F64Seqs : Construct("from_iter", vs, from_iter(vs))

RDataAsRange ==
    /\ ~r_panicked
    /\ \E vs \in F64Seqs : Construct("data_as_range", vs, data_as_range(vs))

\* A setter call on the Range held.
Mutate(name, v, res) ==
    /\ r_op' = Call(name, <<v>>)
    /\ r_ret' = None
    /\ r_panicked' = res.panic
    /\ range' = IF res.panic THEN range ELSE Some(res.v)
    /\ UNCHANGED <<t_vars, c_vars, w_vars>>

RSetMin ==
    /\ ~r_panicked
    /\ range.some
    /\ \E v \in F64Inputs : Mutate("set_min", v, set_min(range.v, v))

RSetMax ==
    /\ ~r_panicked
    /\ range.some
    /\ \E v \in F64Inputs : Mutate("set_max", v, set_max(range.v, v))

RExtendTo ==
    /\ ~r_panicked
    /\ range.some
    /\ \E v \in F64Inputs :
          LET res == extend_to(range.v, v)
          IN  /\ r_op' = Call("extend_to", <<v>>)
              /\ r_ret' = Some(res.changed)
              /\ range' = Some(res.range)
              /\ UNCHANGED <<r_panicked, t_vars, c_vars, w_vars>>

RNext ==
    \/ RNew
    \/ RFromTuple
    \/ RFromStdRange
    \/ RFromIter
    \/ RDataAsRange
    \/ RSetMin
    \/ RSetMax
    \/ RExtendTo

(***************************************************************************)
(* Tick spacing (axes.rs)                                                  *)
(***************************************************************************)
\* calc_next_tick
calc_next_tick(v, spacing) ==
    LET v_tick_diff == rem_euclid(v, spacing)
    IN  IF Eq(v_tick_diff, Zero) THEN v ELSE Add(Sub(v, v_tick_diff), spacing)

\* calc_prev_tick
calc_prev_tick(v, spacing) ==
    LET v_tick_diff == rem_euclid(v, spacing)
    IN  IF Eq(v_tick_diff, spacing) THEN v ELSE Sub(v, v_tick_diff)

\* count_ticks
count_ticks(r, tick_step) ==
    LET start == calc_next_tick(r.min, tick_step)
        end == calc_prev_tick(r.max, tick_step)
    IN  as_usize(Floor(Div(Sub(end, start), tick_step))) + 1

\* What count_ticks_slow gives when its loop never ends.
Diverges == -1

RECURSIVE CountLoop(_, _, _, _)
\* The while loop of count_ticks_slow and the correction after it.  When
\* start += tick_step leaves start as it was, the loop never ends.
CountLoop(start, end, tick_step, tick_count) ==
    IF Le(start, end)
    THEN IF Add(start, tick_step) = start THEN Diverges
         ELSE CountLoop(Add(start, tick_step), end, tick_step, tick_count + 1)
    ELSE tick_count - 1

\* count_ticks_slow
count_ticks_slow(r, tick_step) ==
    CountLoop(calc_next_tick(r.min, tick_step), calc_prev_tick(r.max, tick_step),
              tick_step, 1)

\* pow_10_just_too_many (num_ticks >= 1: the usize subtraction does not wrap)
pow_10_just_too_many(r, num_ticks) ==
    With(Int2F(num_ticks - 1), LAMBDA nt :
    With(Div(size(r), nt), LAMBDA ideal_spacing :
    With(powf10(log10_floor(ideal_spacing)), LAMBDA spacing :
    With(calc_next_tick(r.min, spacing), LAMBDA first_tick :
        IF Lt(Add(first_tick, Mul(nt, spacing)), calc_prev_tick(r.max, spacing))
        THEN spacing
        ELSE Mul(spacing, Tenth)))))

\* calc_tick_spacing with no early return for a range of size 0
calc_tick_spacing_any_size(r, target_count) ==
    IF target_count <= 1 THEN NAN
    ELSE LET too_many_10s == pow_10_just_too_many(r, target_count)
         IN  IF count_ticks(r, Mul(Int2F(2), too_many_10s)) <= target_count
             THEN Mul(Int2F(2), too_many_10s)
             ELSE IF count_ticks(r, Mul(Int2F(5), too_many_10s)) <= target_count
             THEN Mul(Int2F(5), too_many_10s)
             ELSE Mul(too_many_10s, Int2F(10))

\* calc_tick_spacing probing 5 x base before 2 x base
calc_tick_spacing_5_first(r, target_count) ==
    IF target_count <= 1 \/ Eq(size(r), Zero) THEN NAN
    ELSE LET too_many_10s == pow_10_just_too_many(r, target_count)
         IN  IF count_ticks(r, Mul(Int2F(5), too_many_10s)) <= target_count
             THEN Mul(Int2F(5), too_many_10s)
             ELSE IF count_ticks(r, Mul(Int2F(2), too_many_10s)) <= target_count
             THEN Mul(Int2F(2), too_many_10s)
             ELSE Mul(too_many_10s, Int2F(10))

\* calc_tick_spacing: the value returned
calc_tick_spacing(r, target_count) ==
    IF target_count <= 1 \/ Eq(size(r), Zero) THEN NAN
    ELSE With(pow_10_just_too_many(r, target_count), LAMBDA too_many_10s :
             IF count_ticks(r, Mul(Int2F(2), too_many_10s)) <= target_count
             THEN Mul(Int2F(2), too_many_10s)
             ELSE IF count_ticks(r, Mul(Int2F(5), too_many_10s)) <= target_count
             THEN Mul(Int2F(5), too_many_10s)
             ELSE Mul(too_many_10s, Int2F(10)))

\* calc_tick_spacing: how the debug_assert!s met on the way end, in order:
\* "ok" (all hold), "panic" (one fails) or "hang" (count_ticks_slow never
\* returns).
calc_tick_spacing_asserts(r, target_count) ==
    IF target_count <= 1 \/ Eq(size(r), Zero) THEN "ok"
    ELSE With(pow_10_just_too_many(r, target_count), LAMBDA too_many_10s :
         With(count_ticks_slow(r, too_many_10s), LAMBDA slow_1 :
         With(count_ticks_slow(r, Mul(too_many_10s, Int2F(10))), LAMBDA slow_10 :
             CASE slow_1 = Diverges -> "hang"
               [] ~(slow_1 > target_count) -> "panic"
               [] slow_10 = Diverges -> "hang"
               [] ~(slow_10 <= target_count) -> "panic"
               [] count_ticks(r, Mul(Int2F(2), too_many_10s)) <= target_count -> "ok"
               [] count_ticks(r, Mul(Int2F(5), too_many_10s)) <= target_count -> "ok"
               [] count_ticks(r, Mul(Int2F(10), too_many_10s)) <= target_count -> "ok"
               [] OTHER -> "panic")))

(***************************************************************************)
(* Bounds of the inputs of the tick functions                              *)
(***************************************************************************)
\* Range bounds are the decimal values i / 10 for i in -MaxGrid..MaxGrid, as
\* a literal such as 0.3 gives them, and, for ranges a few floats wide, the
\* values 2^(Precision-2) + j / 2 for j in 0..MaxTight, which are
\* consecutive floats, and, for ranges of the smallest floats, the values
\* j * 2^-TinyExp for j in -MaxTiny..MaxTiny.
MaxGrid == 8
MaxTight == 2
MaxTiny == 2
\* target_count and target_num_points range over 0..MaxTarget.
MaxTarget == 5
\* The number of calls of TickerIter::next within which an iteration is to end.
MaxTicks == 12

Grid == {Div(Int2F(i), Int2F(10)) : i \in -MaxGrid..MaxGrid}
TightGrid == {Add(Int2F(2^(Precision - 2)), Div(Int2F(j), Int2F(2))) : j \in 0..MaxTight}
TinyGrid == {Norm(j, -TinyExp) : j \in -MaxTiny..MaxTiny}
\* The Ranges Range::new returns over each grid.
ValidRanges ==
    {Range(p[1], p[2]) :
        p \in {q \in (Grid \X Grid) \cup (TightGrid \X TightGrid) \cup (TinyGrid \X TinyGrid) :
                  Le(q[1], q[2])}}
\* Steps handed to the tick functions: {1, 2, 5} x 10^e for e in {-1, 0}, as
\* calc_tick_spacing builds its candidates, and the positive decimal values.
Steps ==
    {Mul(Int2F(n), b) : n \in {1, 2, 5}, b \in {powf10(Int2F(-1)), powf10(Zero)}}
        \cup {x \in Grid : Gt(x, Zero)}

(***************************************************************************)
(* One call of a tick function                                             *)
(***************************************************************************)
CCalcTickSpacing ==
    /\ c_call.fn = "none"
    /\ \E target_count \in 0..MaxTarget :
          c_call' = [fn |-> "calc_tick_spacing", target_count |-> target_count,
                     ret |-> calc_tick_spacing(c_range, target_count),
                     asserts |-> calc_tick_spacing_asserts(c_range, target_count)]
    /\ UNCHANGED <<c_range, r_vars, t_vars, w_vars>>

CPow10JustTooMany ==
    /\ c_call.fn = "none"
    /\ \E num_ticks \in 1..MaxTarget :
          c_call' = [fn |-> "pow_10_just_too_many", num_ticks |-> num_ticks,
                     ret |-> pow_10_just_too_many(c_range, num_ticks)]
    /\ UNCHANGED <<c_range, r_vars, t_vars, w_vars>>

\* test_count_ticks: both counts of the same range and step
CCountTicks ==
    /\ c_call.fn = "none"
    /\ \E tick_step \in Steps :
          c_call' = [fn |-> "count_ticks", tick_step |-> tick_step,
                     ret |-> count_ticks(c_range, tick_step),
                     slow |-> count_ticks_slow(c_range, tick_step)]
    /\ UNCHANGED <<c_range, r_vars, t_vars, w_vars>>

CCalcNextTick ==
    /\ c_call.fn = "none"
    /\ \E v \in {c_range.min, c_range.max}, spacing \in Steps :
          c_call' = [fn |-> "calc_next_tick", v |-> v, spacing |-> spacing,
                     ret |-> calc_next_tick(v, spacing)]
    /\ UNCHANGED <<c_range, r_vars, t_vars, w_vars>>

CCalcPrevTick ==
    /\ c_call.fn = "none"
    /\ \E v \in {c_range.min, c_range.max}, spacing \in Steps :
          c_call' = [fn |-> "calc_prev_tick", v |-> v, spacing |-> spacing,
                     ret |-> calc_prev_tick(v, spacing)]
    /\ UNCHANGED <<c_range, r_vars, t_vars, w_vars>>

CNext ==
    \/ CCalcTickSpacing
    \/ CPow10JustTooMany
    \/ CCountTicks
    \/ CCalcNextTick
    \/ CCalcPrevTick

(***************************************************************************)
(* Ticker and TickerIter (axes.rs)                                         *)
(***************************************************************************)
\* Ticker::new
Ticker_new(data_range, target_num_points) ==
    [data_range |-> data_range,
     target_num_points |-> target_num_points,
     spacing |-> calc_tick_spacing(data_range, target_num_points)]

\* Ticker::first_tick
first_tick(tk) ==
    IF tk.target_num_points \in {0, 1, 2}
    THEN tk.data_range.min
    ELSE calc_next_tick(tk.data_range.min, tk.spacing)

\* Ticker::into_iter
into_iter(tk) == [inner |-> tk, next_tick |-> 0]

\* Tick::new
Tick(t, value) == [t |-> t, value |-> value]

\* The `n =>` arm of TickerIter::next without its test of t
next_by_spacing_no_end(it) ==
    LET value == Add(first_tick(it.inner), Mul(Int2F(it.next_tick), it.inner.spacing))
        min == it.inner.data_range.min
        max == it.inner.data_range.max
        t == Div(Sub(value, min), Sub(max, min))
    IN  [iter |-> [it EXCEPT !.next_tick = @ + 1], item |-> Some(Tick(t, value))]

\* The `n =>` arm of TickerIter::next
next_by_spacing(it) ==
    LET value == Add(first_tick(it.inner), Mul(Int2F(it.next_tick), it.inner.spacing))
        min == it.inner.data_range.min
        max == it.inner.data_range.max
        t == Div(Sub(value, min), Sub(max, min))
    IN  IF Le(t, One)
        THEN [iter |-> [it EXCEPT !.next_tick = @ + 1], item |-> Some(Tick(t, value))]
        ELSE [iter |-> it, item |-> None]

\* TickerIter::next with no arm for 2: two points go by the spacing too
TickerIter_next_no_2(it) ==
    LET advance(tick) == [iter |-> [it EXCEPT !.next_tick = @ + 1], item |-> Some(tick)]
        stop == [iter |-> it, item |-> None]
        min == it.inner.data_range.min
    IN  CASE it.inner.target_num_points = 0 -> stop
          [] it.inner.target_num_points = 1 ->
                IF it.next_tick = 0 THEN advance(Tick(Zero, min)) ELSE stop
          [] OTHER -> next_by_spacing(it)

\* TickerIter::next that moves the range of its Ticker past the Tick it returns
TickerIter_next_consuming(it) ==
    LET advance(tick) ==
            [iter |-> [it EXCEPT !.next_tick = @ + 1, !.inner.data_range.min = tick.value],
             item |-> Some(tick)]
        stop == [iter |-> it, item |-> None]
        min == it.inner.data_range.min
        max == it.inner.data_range.max
        by_spacing == next_by_spacing(it)
    IN  CASE it.inner.target_num_points = 0 -> stop
          [] it.inner.target_num_points = 1 ->
                IF it.next_tick = 0 THEN advance(Tick(Zero, min)) ELSE stop
          [] it.inner.target_num_points = 2 ->
                CASE it.next_tick = 0 -> advance(Tick(Zero, min))
                  [] it.next_tick = 1 -> advance(Tick(One, max))
                  [] OTHER -> stop
          [] OTHER -> IF by_spacing.item.some THEN advance(by_spacing.item.v) ELSE stop

\* TickerIter::next: the iterator afterwards and the item returned
TickerIter_next(it) ==
    LET advance(tick) == [iter |-> [it EXCEPT !.next_tick = @ + 1], item |-> Some(tick)]
        stop == [iter |-> it, item |-> None]
        min == it.inner.data_range.min
        max == it.inner.data_range.max
    IN  CASE it.inner.target_num_points = 0 -> stop
          [] it.inner.target_num_points = 1 ->
                IF it.next_tick = 0 THEN advance(Tick(Zero, min)) ELSE stop
          [] it.inner.target_num_points = 2 ->
                CASE it.next_tick = 0 -> advance(Tick(Zero, min))
                  [] it.next_tick = 1 -> advance(Tick(One, max))
                  [] OTHER -> stop
          [] OTHER -> next_by_spacing(it)

\* let ticker = Ticker::new(range, target); in a build with debug assertions
\* a failed debug_assert! of calc_tick_spacing aborts the program, and a
\* count_ticks_slow that never returns hangs it.
TTickerNew ==
    /\ t_pc = "start"
    /\ LET asserts == IF debug_assertions
                      THEN calc_tick_spacing_asserts(t_range, t_target)
                      ELSE "ok"
       IN  IF asserts = "ok"
           THEN /\ ticker' = Some(Ticker_new(t_range, t_target))
                /\ t_pc' = "ticker"
           ELSE /\ t_pc' = asserts
                /\ UNCHANGED ticker
    /\ UNCHANGED <<debug_assertions, t_range, t_target, iter, yielded, t_done, first_run, r_vars, c_vars, w_vars>>

\* let mut it = ticker.into_iter();
TIntoIter ==
    /\ t_pc = "ticker"
    /\ iter' = Some(into_iter(ticker.v))
    /\ t_pc' = "iter"
    /\ UNCHANGED <<debug_assertions, t_range, t_target, ticker, yielded, t_done, first_run, r_vars, c_vars, w_vars>>

\* it.next()
TIterNext ==
    /\ t_pc = "iter"
    /\ LET res == TickerIter_next(iter.v)
       IN  /\ iter' = Some(res.iter)
           /\ yielded' = IF res.item.some THEN Append(yielded, res.item.v) ELSE yielded
           /\ t_done' = (t_done \/ ~res.item.some)
    /\ UNCHANGED <<debug_assertions, t_pc, t_range, t_target, ticker, first_run, r_vars, c_vars, w_vars>>

\* A second `for tick in ticker`, once the first has ended: Ticker is Copy,
\* into_iter takes a copy of the Ticker the program holds.
TIterateAgain ==
    /\ t_pc = "iter"
    /\ t_done
    /\ ~first_run.some
    /\ first_run' = Some(yielded)
    /\ iter' = Some(into_iter(ticker.v))
    /\ yielded' = <<>>
    /\ t_done' = FALSE
    /\ UNCHANGED <<debug_assertions, t_pc, t_range, t_target, ticker, r_vars, c_vars, w_vars>>

TNext ==
    \/ TTickerNew
    \/ TIntoIter
    \/ TIterNext
    \/ TIterateAgain

(***************************************************************************)
(* Scale (axes.rs)                                                         *)
(***************************************************************************)
\* kurbo's Rect, Size and Point
Rect(x0, y0, x1, y1) == [x0 |-> x0, y0 |-> y0, x1 |-> x1, y1 |-> y1]
Rect_ZERO == Rect(Zero, Zero, Zero, Zero)
Size(width, height) == [width |-> width, height |-> height]
Point(x, y) == [x |-> x, y |-> y]

\* f64::min and f64::max: a NaN operand gives the other operand
f64_min(a, b) == IF is_nan(a) THEN b ELSE IF is_nan(b) THEN a ELSE IF Lt(b, a) THEN b ELSE a
f64_max(a, b) == IF is_nan(a) THEN b ELSE IF is_nan(b) THEN a ELSE IF Gt(b, a) THEN b ELSE a

\* Rect::abs, Rect::width, Rect::height
Rect_abs(r) == Rect(f64_min(r.x0, r.x1), f64_min(r.y0, r.y1), f64_max(r.x0, r.x1), f64_max(r.y0, r.y1))
width(r) == Sub(r.x1, r.x0)
height(r) == Sub(r.y1, r.y0)

\* Rect's derived PartialEq, negated: some coordinate is != the other's
Rect_ne(a, b) == ~(Eq(a.x0, b.x0) /\ Eq(a.y0, b.y0) /\ Eq(a.x1, b.x1) /\ Eq(a.y1, b.y1))

SCALE_TICK_MARGIN == 5

\* Direction::max_labels
max_labels(d, bounds) ==
    IF d = "X"
    THEN as_usize(Floor(Div(width(bounds), Int2F(100)))) + 1
    ELSE as_usize(Floor(Div(height(bounds), Int2F(40)))) + 1

\* Direction::position
position(d, bounds, t) ==
    IF d = "X"
    THEN Add(bounds.x0, Mul(t, width(bounds)))
    ELSE Sub(bounds.y1, Mul(t, height(bounds)))

\* Direction::label_position
label_position(d, bounds, t, sz, margin) ==
    LET p == position(d, bounds, t)
        half == Div(One, Int2F(2))
    IN  IF d = "X"
        THEN Point(Sub(p, Mul(half, sz.width)), Add(bounds.y1, Int2F(SCALE_TICK_MARGIN)))
        ELSE Point(Sub(Sub(bounds.x0, sz.width), Int2F(SCALE_TICK_MARGIN)),
                   Sub(p, Mul(half, sz.height)))

\* Scale::new
Scale_new(data_range, direction) ==
    [direction |-> direction,
     data_range |-> data_range,
     graph_bounds |-> Rect_ZERO,
     axis_color |-> "AXES_COLOR",
     scale_ticker |-> None,
     layouts |-> None,
     max_layout |-> None]

\* Scale::invalidate dropping the Ticker only
invalidate_ticker_only(sc) == [sc EXCEPT !.scale_ticker = None]

\* Scale::invalidate
invalidate(sc) == [sc EXCEPT !.scale_ticker = None, !.layouts = None, !.max_layout = None]

\* Scale::set_direction
Scale_set_direction(sc, d) ==
    IF sc.direction # d THEN invalidate([sc EXCEPT !.direction = d]) ELSE sc

\* Scale::include_zero
Scale_include_zero(sc) ==
    LET res == extend_to(sc.data_range, Zero)
    IN  IF res.changed THEN invalidate([sc EXCEPT !.data_range = res.range]) ELSE sc

\* Scale::set_graph_bounds storing the bounds without invalidating
Scale_set_graph_bounds_keeping(sc, graph_bounds) ==
    [sc EXCEPT !.graph_bounds = Rect_abs(graph_bounds)]

\* Scale::set_graph_bounds
Scale_set_graph_bounds(sc, graph_bounds) ==
    LET abs == Rect_abs(graph_bounds)
    IN  IF Rect_ne(sc.graph_bounds, abs)
        THEN [invalidate(sc) EXCEPT !.graph_bounds = abs]
        ELSE sc

\* Scale::set_axis_color
Scale_set_axis_color(sc, color) == [sc EXCEPT !.axis_color = color]

RECURSIVE Collect(_, _)
\* Iterator::collect on a TickerIter: the Ticks next() returns until None
Collect(it, acc) ==
    LET res == TickerIter_next(it)
    IN  IF res.item.some THEN Collect(res.iter, Append(acc, res.item.v)) ELSE acc

\* The text of a tick label, format!("{}", tick.value.to_precision(5)), kept
\* as the call that produces it.
LabelText(value) == [to_precision |-> 5, of |-> value]

\* TextLayout::size after rebuild_if_needed: the text system measures the
\* label; here every label is one line high and the label of a negative
\* value is one character wider than the others.
layout_size(text) == Size(Int2F(IF Sign(text.of) < 0 THEN 48 ELSE 40), Int2F(16))

\* The closure of rebuild_if_needed: the PositionedLayout of one Tick
PositionedLayout(sc, tick) ==
    LET text == LabelText(tick.value)
    IN  [position |-> label_position(sc.direction, sc.graph_bounds, tick.t,
                                     layout_size(text), Int2F(SCALE_TICK_MARGIN)),
         layout |-> [text |-> text, size |-> layout_size(text)]]

RECURSIVE MaxSize(_, _, _)
\* The loop of rebuild_max_layout over the layouts left
MaxSize(ls, max_width, max_height) ==
    IF ls = <<>> THEN Size(max_width, max_height)
    ELSE LET sz == Head(ls).layout.size
         IN  MaxSize(Tail(ls),
                     IF Gt(sz.width, max_width) THEN sz.width ELSE max_width,
                     IF Gt(sz.height, max_height) THEN sz.height ELSE max_height)

\* Scale::rebuild_max_layout
rebuild_max_layout(sc) ==
    IF sc.max_layout.some
    THEN sc
    ELSE [sc EXCEPT !.max_layout = Some(MaxSize(sc.layouts.v, Zero, Zero))]

\* How Ticker::new ends inside rebuild_if_needed: "ok", or in a build with
\* debug assertions "panic" or "hang" (calc_tick_spacing's debug_assert!s)
Scale_rebuild_outcome(sc, debug) ==
    IF ~sc.scale_ticker.some /\ debug
    THEN calc_tick_spacing_asserts(sc.data_range, max_labels(sc.direction, sc.graph_bounds))
    ELSE "ok"

\* Scale::rebuild_if_needed, where Ticker::new returns
Scale_rebuild_if_needed(sc) ==
    With(IF ~sc.scale_ticker.some
         THEN [sc EXCEPT !.layouts = None,
                         !.scale_ticker =
                             Some(Ticker_new(sc.data_range,
                                             max_labels(sc.direction, sc.graph_bounds)))]
         ELSE sc, LAMBDA sc1 :
    With(IF ~sc1.layouts.some
         THEN With(Collect(into_iter(sc1.scale_ticker.v), <<>>), LAMBDA ticks :
                  [sc1 EXCEPT !.layouts =
                      Some([i \in 1..Len(ticks) |-> PositionedLayout(sc1, ticks[i])])])
         ELSE sc1, LAMBDA sc2 :
        rebuild_max_layout(sc2)))

\* Scale::max_layout: the unwrap panics on None
Scale_max_layout(sc) == IF sc.max_layout.some THEN Ret(sc.max_layout.v) ELSE Panic

\* Scale::draw: the unwrap of layouts panics on None when labels are drawn
Scale_draw(sc, draw_axis, draw_labels) ==
    IF draw_labels /\ ~sc.layouts.some THEN Panic ELSE Ret(sc)

\* Scale::pixel_location
pixel_location(sc, v) ==
    LET min == sc.data_range.min
        max == sc.data_range.max
        t == Div(Sub(v, min), Sub(max, min))
    IN  position(sc.direction, sc.graph_bounds, t)

\* ---- the inputs of the calls on a Scale ----
\* Data ranges have the bounds i / 10 for i in -MaxScale..MaxScale.
MaxScale == 3
\* Graph areas are Rect::new(0, 0, 125 i, 50 i) for i in 0..MaxPixels (1 + i
\* labels fit in either direction), the same with its corners exchanged, one
\* with a NaN coordinate (which Rect::abs removes) and one with two (which it
\* keeps).
MaxPixels == 2

ScaleGrid == {Div(Int2F(i), Int2F(10)) : i \in -MaxScale..MaxScale}
ScaleRanges == {Range(p[1], p[2]) : p \in {q \in ScaleGrid \X ScaleGrid : Le(q[1], q[2])}}
Directions == {"X", "Y"}
Rects ==
    {Rect(Zero, Zero, Int2F(125 * i), Int2F(50 * i)) : i \in 0..MaxPixels}
        \cup {Rect(Int2F(125 * i), Int2F(50 * i), Zero, Zero) : i \in 1..MaxPixels}
        \cup {Rect(Zero, Zero, NAN, Int2F(50)), Rect(NAN, Zero, NAN, Int2F(50))}
Colors == {"AXES_COLOR", "RED"}

\* ---- the calls a program makes on its Scale ----
SNew ==
    /\ s_pc = "new"
    /\ \E data_range \in ScaleRanges, direction \in Directions :
          /\ scale' = Some(Scale_new(data_range, direction))
          /\ s_op' = [name |-> "new"]
    /\ s_pc' = "live"
    /\ UNCHANGED <<r_vars, t_vars, c_vars, l_vars, p_vars, b_vars>>

\* A setter: the call and the Scale afterwards
SSet(name, sc) ==
    /\ scale' = Some(sc)
    /\ s_op' = [name |-> name]
    /\ UNCHANGED <<s_pc, r_vars, t_vars, c_vars, l_vars, p_vars, b_vars>>

SSetDirection ==
    /\ s_pc = "live"
    /\ \E d \in Directions : SSet("set_direction", Scale_set_direction(scale.v, d))

SIncludeZero ==
    /\ s_pc = "live"
    /\ SSet("include_zero", Scale_include_zero(scale.v))

SSetGraphBounds ==
    /\ s_pc = "live"
    /\ \E graph_bounds \in Rects :
          SSet("set_graph_bounds", Scale_set_graph_bounds(scale.v, graph_bounds))

SSetAxisColor ==
    /\ s_pc = "live"
    /\ \E color \in Colors : SSet("set_axis_color", Scale_set_axis_color(scale.v, color))

\* rebuild_if_needed: in a build with debug assertions Ticker::new can panic
\* or never return, after layouts was set to None
SRebuildIfNeeded ==
    /\ s_pc = "live"
    /\ \E outcome \in {Scale_rebuild_outcome(scale.v, debug_assertions)} :
          IF outcome = "ok"
          THEN /\ scale' = Some(Scale_rebuild_if_needed(scale.v))
               /\ s_pc' = "live"
          ELSE /\ scale' = Some([scale.v EXCEPT !.layouts = None])
               /\ s_pc' = outcome
    /\ s_op' = [name |-> "rebuild_if_needed"]
    /\ UNCHANGED <<r_vars, t_vars, c_vars, l_vars, p_vars, b_vars>>

\* A call that reads the retained state: a panic aborts the program
SRead(name, res) ==
    /\ s_op' = [name |-> name]
    /\ s_pc' = IF res.panic THEN "panic" ELSE "live"
    /\ UNCHANGED <<scale, r_vars, t_vars, c_vars, l_vars, p_vars, b_vars>>

SMaxLayout ==
    /\ s_pc = "live"
    /\ SRead("max_layout", Scale_max_layout(scale.v))

SDraw ==
    /\ s_pc = "live"
    /\ \E draw_axis \in BOOLEAN, draw_labels \in BOOLEAN :
          SRead("draw", Scale_draw(scale.v, draw_axis, draw_labels))

SNext ==
    \/ SNew
    \/ SSetDirection
    \/ SIncludeZero
    \/ SSetGraphBounds
    \/ SSetAxisColor
    \/ SRebuildIfNeeded
    \/ SMaxLayout
    \/ SDraw

(***************************************************************************)
(* LineChart (line_chart.rs)                                               *)
(***************************************************************************)
RECURSIVE successors(_, _)
\* iter::successors(Some(n), |n| if *n <= len { Some(n + 1.) } else { None })
successors(n, len) ==
    <<n>> \o (IF Le(n, len) THEN successors(Add(n, One), len) ELSE <<>>)

\* resolve_x_data: the x data, or the successors of 0.0 for `len as f64`
resolve_x_data(x_data, len) ==
    IF x_data.some THEN x_data.v ELSE successors(Zero, Int2F(len))

\* LineChart::new, without its text layouts
LineChart_new == [data_range_x |-> None, data_range_y |-> None, x_scale |-> None, y_scale |-> None]

\* A callback's outcome: the widget afterwards, or "panic" or "hang"
Done(w) == [pc |-> "added", w |-> w]
Abort(how) == [pc |-> how]

\* LineChart::calc_x_data_range and calc_y_data_range: Range::from_iter panics
\* on data with no value that compares (no data, NaN only)
calc_x_data_range(w, data) ==
    With(from_iter(resolve_x_data(data.x_data, Len(data.y_data))), LAMBDA res :
        IF res.panic THEN Abort("panic")
        ELSE Done([w EXCEPT !.data_range_x = Some(res.v), !.x_scale = None]))
calc_y_data_range(w, data) ==
    With(from_iter(data.y_data), LAMBDA res :
        IF res.panic THEN Abort("panic")
        ELSE Done([w EXCEPT !.data_range_y = Some(res.v), !.y_scale = None]))

\* Option::or in LineChart::x_range and LineChart::y_range
x_range(w, data) == IF data.x_range.some THEN data.x_range ELSE w.data_range_x
y_range(w, data) == IF data.y_range.some THEN data.y_range ELSE w.data_range_y

\* `then` after a step that returned; an aborted step stays aborted
AndThen(res, then(_)) == IF res.pc = "added" THEN then(res.w) ELSE res

\* LifeCycle::WidgetAdded
LineChart_lifecycle(w, data) ==
    AndThen(IF ~data.x_range.some THEN calc_x_data_range(w, data) ELSE Done(w), LAMBDA w1 :
            IF ~data.y_range.some THEN calc_y_data_range(w1, data) ELSE Done(w1))

\* LineChart::update computing a data range only when its data changed
LineChart_update_on_change(w, data, same_x, same_y) ==
    AndThen(IF ~same_x /\ ~data.x_range.some
            THEN calc_x_data_range(w, data) ELSE Done(w), LAMBDA w1 :
            IF ~same_y /\ ~data.y_range.some
            THEN calc_y_data_range(w1, data) ELSE Done(w1))

\* LineChart::update; same_x and same_y are what Data::same returned for
\* x_data and y_data
LineChart_update(w, data, same_x, same_y) ==
    AndThen(IF (~same_x \/ ~w.data_range_x.some) /\ ~data.x_range.some
            THEN calc_x_data_range(w, data) ELSE Done(w), LAMBDA w1 :
            IF (~same_y \/ ~w1.data_range_y.some) /\ ~data.y_range.some
            THEN calc_y_data_range(w1, data) ELSE Done(w1))

\* theme::MARGIN as add_to_env sets it; theme::SCALE_MARGIN, which theme.rs
\* does not define, is taken to be the same.
MARGIN == 6
SCALE_MARGIN == 6
\* TextLayout::set_text_size(20.): the height of a title or x axis label
TitleHeight == 20

\* set_graph_bounds then rebuild_if_needed on one Scale: how it ends and the
\* Scale afterwards
ScaleBuilt(sc, bounds, debug) ==
    With(Scale_set_graph_bounds(sc, bounds), LAMBDA sc1 :
    With(Scale_rebuild_outcome(sc1, debug), LAMBDA outcome :
        IF outcome # "ok" THEN [pc |-> outcome, sc |-> sc1]
        ELSE [pc |-> "added", sc |-> Scale_rebuild_if_needed(sc1)]))

\* The same on x_scale, then on y_scale
BothBuilt(x_scale, y_scale, bounds, debug) ==
    With(ScaleBuilt(x_scale, bounds, debug), LAMBDA x :
        IF x.pc # "added" THEN [pc |-> x.pc]
        ELSE With(ScaleBuilt(y_scale, bounds, debug), LAMBDA y :
                 [pc |-> y.pc, x |-> x.sc, y |-> y.sc]))

\* The Rect draw_area.inset(graph_insets) of rebuild_if_needed
GraphBounds(draw_area, x_scale, y_scale, title_empty, label_empty) ==
    With(Int2F(MARGIN), LAMBDA margin :
    With(Int2F(SCALE_MARGIN), LAMBDA scale_margin :
    With(Add(Add(margin, y_scale.max_layout.v.width), scale_margin), LAMBDA x0 :
    With(IF title_empty THEN margin
         ELSE Add(Mul(Int2F(2), margin), Int2F(TitleHeight)), LAMBDA y0 :
    With(Add(Add(Add(margin, x_scale.max_layout.v.height), scale_margin),
             IF label_empty THEN Zero ELSE Add(margin, Int2F(TitleHeight))), LAMBDA y1 :
        Rect(Add(draw_area.x0, x0), Add(draw_area.y0, y0),
             Sub(draw_area.x1, margin), Sub(draw_area.y1, y1)))))))

\* LineChart::rebuild_if_needed for a canvas of the size ctx.size()
LineChart_rebuild_if_needed(w, data, canvas, title_empty, label_empty, debug) ==
    IF \/ ~w.x_scale.some /\ ~x_range(w, data).some
       \/ ~w.y_scale.some /\ ~y_range(w, data).some
    THEN Abort("panic")
    ELSE
    With(Rect(Zero, Zero, canvas.width, canvas.height), LAMBDA draw_area :
    With(BothBuilt(IF w.x_scale.some THEN w.x_scale.v ELSE Scale_new(x_range(w, data).v, "X"),
                   IF w.y_scale.some THEN w.y_scale.v ELSE Scale_new(y_range(w, data).v, "Y"),
                   draw_area, debug), LAMBDA first :
        IF first.pc # "added" THEN Abort(first.pc)
        ELSE
        With(BothBuilt(first.x, first.y,
                       GraphBounds(draw_area, first.x, first.y, title_empty, label_empty),
                       debug), LAMBDA again :
            IF again.pc # "added" THEN Abort(again.pc)
            ELSE Done([w EXCEPT !.x_scale = Some(again.x), !.y_scale = Some(again.y)]))))

\* LineChart::paint: rebuild_if_needed, the lines between the points at their
\* pixel locations, then draw on both Scales
LineChart_paint(w, data, canvas, title_empty, label_empty, debug) ==
    With(LineChart_rebuild_if_needed(w, data, canvas, title_empty, label_empty, debug),
         LAMBDA built :
        IF built.pc # "added" THEN built
        ELSE
        With(resolve_x_data(data.x_data, Len(data.y_data)), LAMBDA xs :
        With(Min2(Len(xs), Len(data.y_data)), LAMBDA n :
            IF \/ Scale_draw(built.w.x_scale.v, TRUE, TRUE).panic
               \/ Scale_draw(built.w.y_scale.v, TRUE, TRUE).panic
            THEN Abort("panic")
            ELSE [pc |-> "added", w |-> built.w,
                  lines |-> [i \in 1..(IF n = 0 THEN 0 ELSE n - 1) |->
                      <<Point(pixel_location(built.w.x_scale.v, xs[i]),
                              pixel_location(built.w.y_scale.v, data.y_data[i])),
                        Point(pixel_location(built.w.x_scale.v, xs[i + 1]),
                              pixel_location(built.w.y_scale.v, data.y_data[i + 1]))>>]])))

\* ---- the inputs of the callbacks ----
\* Data are the vectors <<0, .., n - 1>> for n in 0..MaxLine; explicit ranges
\* are 0..i for i in 1..MaxLineRange; the canvas is 250 by 100.
MaxLine == 1
MaxLineRange == 2

Lines ==
    {[i \in 1..n |-> Int2F(i - 1)] : n \in 0..MaxLine}
LineRanges == {Some(Range(Zero, Int2F(i))) : i \in 1..MaxLineRange} \cup {None}
LineChartData ==
    [x_range : LineRanges, x_data : {Some(l) : l \in {m \in Lines : Len(m) = MaxLine}} \cup {None},
     y_range : {None, Some(Range(Zero, One))}, y_data : Lines]
Canvases == {Size(Int2F(250), Int2F(100))}

\* Data::same on two vectors: false if they differ; vectors that are equal
\* are the same if they share their storage or are short enough to be
\* compared by value, so equal vectors can be found not the same.
Same(old, new) == IF old = new THEN BOOLEAN ELSE {FALSE}
\* Data::same on two Option<Vector>: two None are the same, two Some are as
\* their vectors
SameOption(old, new) ==
    IF old.some /\ new.some THEN Same(old.v, new.v) ELSE {~old.some /\ ~new.some}

\* ---- the callbacks druid makes ----
\* What a callback leaves: the data and the widget where it returned, nothing
\* where it aborted the program. l_op names the callback and tells whether it
\* computed a data range for the first time.
LReturn(name, data, res) ==
    /\ l_pc' = res.pc
    /\ l_data' = IF res.pc = "added" THEN data ELSE None
    /\ line_chart' = IF res.pc = "added" THEN res.w ELSE LineChart_new
    /\ l_op' = [name |-> name,
                first_x |-> res.pc = "added" /\ ~line_chart.data_range_x.some /\ res.w.data_range_x.some,
                first_y |-> res.pc = "added" /\ ~line_chart.data_range_y.some /\ res.w.data_range_y.some]

\* lifecycle(LifeCycle::WidgetAdded), with the data the application starts with
LWidgetAdded ==
    /\ l_pc = "new"
    /\ \E data \in LineChartData :
          LReturn("lifecycle", data, LineChart_lifecycle(line_chart, data))
    /\ UNCHANGED <<debug_assertions, r_vars, c_vars, s_vars, p_vars, b_vars>>
    /\ UNCHANGED <<t_pc, t_range, t_target, ticker, iter, yielded, t_done, first_run>>

\* update(old_data, data): the application changed its data
LUpdate ==
    /\ l_pc = "added"
    /\ \E data \in LineChartData :
       \E same_x \in SameOption(l_data.x_data, data.x_data), same_y \in Same(l_data.y_data, data.y_data) :
          LReturn("update", data, LineChart_update(line_chart, data, same_x, same_y))
    /\ UNCHANGED <<debug_assertions, r_vars, c_vars, s_vars, p_vars, b_vars>>
    /\ UNCHANGED <<t_pc, t_range, t_target, ticker, iter, yielded, t_done, first_run>>

\* paint(data) on a canvas; the title and the x axis label of the data are
\* empty
LPaint ==
    /\ l_pc = "added"
    /\ \E canvas \in Canvases, title_empty \in {TRUE}, label_empty \in {TRUE} :
          LReturn("paint", l_data, LineChart_paint(line_chart, l_data, canvas, title_empty,
                                           label_empty, debug_assertions))
    /\ UNCHANGED <<debug_assertions, r_vars, c_vars, s_vars, p_vars, b_vars>>
    /\ UNCHANGED <<t_pc, t_range, t_target, ticker, iter, yielded, t_done, first_run>>

LNext ==
    \/ LWidgetAdded
    \/ LUpdate
    \/ LPaint

(***************************************************************************)
(* PieChart (pie_chart.rs)                                                 *)
(***************************************************************************)
\* A TextLayout is modelled by its text: None for TextLayout::new(),
\* Some(text) after from_text(text) or set_text(text).
\* PieChart::new
PieChart_new == [title_layout |-> None, category_layouts |-> <<>>]

\* LifeCycle::WidgetAdded
PieChart_lifecycle(w, data) ==
    [title_layout |-> Some(data.title),
     category_layouts |-> [i \in 1..Len(data.category_labels) |->
                              Some(data.category_labels[i])]]

\* izip!(&data.category_labels, &mut category_layouts) with set_text: the
\* pairs end with the shorter of the two
SetTexts(category_labels, category_layouts) ==
    [i \in 1..Len(category_layouts) |->
        IF i <= Len(category_labels) THEN Some(category_labels[i]) ELSE category_layouts[i]]

\* PieChart::update with no layouts added at the end
PieChart_update_no_extend(w, data, same_title, same_labels) ==
    [title_layout |-> IF ~same_title THEN Some(data.title) ELSE w.title_layout,
     category_layouts |->
        IF ~same_labels THEN SetTexts(data.category_labels, w.category_layouts)
        ELSE w.category_layouts]

\* PieChart::update; same_title and same_labels are what Data::same returned
PieChart_update(w, data, same_title, same_labels) ==
    [title_layout |-> IF ~same_title THEN Some(data.title) ELSE w.title_layout,
     category_layouts |->
        IF ~same_labels
        THEN SetTexts(data.category_labels,
                      IF Len(w.category_layouts) < Len(data.category_labels)
                      THEN w.category_layouts \o
                           [i \in 1..(Len(data.category_labels) - Len(w.category_layouts)) |-> None]
                      ELSE w.category_layouts)
        ELSE w.category_layouts]

\* PieChart::paint: the layouts drawn in the key,
\* category_layouts.iter().take(categories_count)
PieChart_paint(w, data) ==
    SubSeq(w.category_layouts, 1, Min2(Len(data.category_labels), Len(w.category_layouts)))

\* ---- the inputs of the callbacks ----
\* Titles and labels are "a" or "b"; there are at most MaxLabels labels.
MaxLabels == 3
Texts == {"a", "b"}
PieChartData == [title : Texts, category_labels : SeqsUpTo(Texts, MaxLabels)]

\* ---- the callbacks druid makes ----
PWidgetAdded ==
    /\ p_pc = "new"
    /\ \E data \in PieChartData :
          /\ p_data' = data
          /\ pie_chart' = PieChart_lifecycle(pie_chart, data)
    /\ p_pc' = "added"
    /\ p_op' = [name |-> "lifecycle"]
    /\ UNCHANGED <<r_vars, t_vars, c_vars, s_vars, l_vars, b_vars>>

PUpdate ==
    /\ p_pc = "added"
    /\ \E data \in PieChartData :
       \E same_title \in Same(p_data.title, data.title),
          same_labels \in Same(p_data.category_labels, data.category_labels) :
          /\ p_data' = data
          /\ pie_chart' = PieChart_update(pie_chart, data, same_title, same_labels)
          /\ p_op' = [name |-> "update",
                      grew |-> Len(data.category_labels) > Len(pie_chart.category_layouts)]
    /\ UNCHANGED <<p_pc, r_vars, t_vars, c_vars, s_vars, l_vars, b_vars>>

PPaint ==
    /\ p_pc = "added"
    /\ p_op' = [name |-> "paint", drawn |-> PieChart_paint(pie_chart, p_data)]
    /\ UNCHANGED <<p_pc, p_data, pie_chart, r_vars, t_vars, c_vars, s_vars, l_vars, b_vars>>

PNext ==
    \/ PWidgetAdded
    \/ PUpdate
    \/ PPaint

(***************************************************************************)
(* BoxPlot (box_plot.rs): the data stats of paint                          *)
(***************************************************************************)
RECURSIVE InsertSorted(_, _)
\* x put before the first value of the sorted s that is greater
InsertSorted(x, s) ==
    IF s = <<>> THEN <<x>>
    ELSE IF Lt(x, Head(s)) THEN <<x>> \o s
    ELSE <<Head(s)>> \o InsertSorted(x, Tail(s))

RECURSIVE sort_by(_)
\* data_points.sort_by(partial_cmp) on values that are not NaN
sort_by(data) ==
    IF data = <<>> THEN <<>>
    ELSE InsertSorted(data[Len(data)], sort_by(SubSeq(data, 1, Len(data) - 1)))

\* quantile: Iterator::nth(k) is element k + 1 of the sequence, and None
\* (the unwrap panics) from k = len on
quantile(data, p) ==
    With(Int2F(Len(data) + 1), LAMBDA np1 :
    With(as_usize(Floor(Mul(p, np1))), LAMBDA k :
        IF k >= Len(data) \/ k + 1 >= Len(data) THEN Panic
        ELSE With(Sub(Mul(p, np1), Int2F(k)), LAMBDA alpha :
                 Ret(Add(data[k + 1], Mul(alpha, Sub(data[k + 2], data[k + 1])))))))

\* The p of the five quantile calls of paint: 0.1, 0.25, 0.5, 0.75, 0.9
Quantiles ==
    <<Div(Int2F(1), Int2F(10)), Div(Int2F(1), Int2F(4)), Div(Int2F(1), Int2F(2)),
      Div(Int2F(3), Int2F(4)), Div(Int2F(9), Int2F(10))>>

\* The data stats of BoxPlot::paint: the sorted data, the assert! on the
\* length, and what each of the five quantile calls does with the sorted
\* data; paint aborts at the assert! or at the first call that panics
BoxPlot_stats(data_points) ==
    With(sort_by(data_points), LAMBDA sorted :
        IF ~(Len(data_points) > 0)
        THEN [fn |-> "paint", sorted |-> sorted, panic |-> TRUE, quantiles |-> <<>>]
        ELSE With([i \in 1..Len(Quantiles) |-> quantile(sorted, Quantiles[i])], LAMBDA qs :
                 [fn |-> "paint", sorted |-> sorted,
                  panic |-> \E i \in 1..Len(qs) : qs[i].panic,
                  quantiles |-> qs]))

\* ---- the inputs of paint ----
\* data_points has up to MaxPoints values, all 0 or 1, ascending or descending.
MaxPoints == 21
DataPoints ==
    UNION {{[i \in 1..n |-> IF i <= j THEN Zero ELSE One],
            [i \in 1..n |-> IF i <= j THEN One ELSE Zero]} : n \in 0..MaxPoints, j \in 0..MaxPoints}

\* paint(data) with the data of the application
BPaint ==
    /\ b_call' = BoxPlot_stats(b_data)
    /\ UNCHANGED <<b_data, r_vars, t_vars, c_vars, s_vars, l_vars, p_vars>>

BNext == BPaint

(***************************************************************************)
(* Specifications                                                          *)
(***************************************************************************)
\* In each specification the variables of the other parts keep idle values.
RIdle ==
    /\ range = None
    /\ r_op = Call("idle", <<>>)
    /\ r_ret = None
    /\ r_panicked = FALSE

TIdle ==
    /\ t_pc = "idle"
    /\ t_range = Range(Zero, Zero)
    /\ t_target = 0
    /\ ticker = None
    /\ iter = None
    /\ yielded = <<>>
    /\ t_done = FALSE
    /\ first_run = None

CIdle ==
    /\ c_range = Range(Zero, Zero)
    /\ c_call = [fn |-> "idle"]

SIdle ==
    /\ s_pc = "idle"
    /\ scale = None
    /\ s_op = [name |-> "idle"]

LIdle ==
    /\ l_pc = "idle"
    /\ l_data = None
    /\ line_chart = LineChart_new
    /\ l_op = [name |-> "idle"]

PIdle ==
    /\ p_pc = "idle"
    /\ p_data = None
    /\ pie_chart = PieChart_new
    /\ p_op = [name |-> "idle"]

BIdle ==
    /\ b_data = <<>>
    /\ b_call = [fn |-> "idle"]

WIdle == SIdle /\ LIdle /\ PIdle /\ BIdle


\* No Range yet; any sequence of calls on a Range follows.
RInit ==
    /\ range = None
    /\ r_op = Call("none", <<>>)
    /\ r_ret = None
    /\ r_panicked = FALSE
    /\ debug_assertions = FALSE
    /\ t_pc = "idle"
    /\ t_range = Range(Zero, Zero)
    /\ t_target = 0
    /\ ticker = None
    /\ iter = None
    /\ yielded = <<>>
    /\ t_done = FALSE
    /\ first_run = None
    /\ c_range = Range(Zero, Zero)
    /\ c_call = [fn |-> "idle"]
    /\ WIdle

SpecRange == RInit /\ [][RNext]_vars

\* A valid range and a target count, from which a Ticker is built and iterated.
TInit ==
    /\ debug_assertions \in BOOLEAN
    /\ t_pc = "start"
    /\ t_range \in ValidRanges
    /\ t_target \in 0..MaxTarget
    /\ ticker = None
    /\ iter = None
    /\ yielded = <<>>
    /\ t_done = FALSE
    /\ first_run = None
    /\ range = None
    /\ r_op = Call("idle", <<>>)
    /\ r_ret = None
    /\ r_panicked = FALSE
    /\ c_range = Range(Zero, Zero)
    /\ c_call = [fn |-> "idle"]
    /\ WIdle

SpecTicker == TInit /\ [][TNext]_vars

\* A valid range, on which one call of a tick function follows.
CInit ==
    /\ c_range \in ValidRanges
    /\ c_call = [fn |-> "none"]
    /\ range = None
    /\ r_op = Call("idle", <<>>)
    /\ r_ret = None
    /\ r_panicked = FALSE
    /\ debug_assertions = FALSE
    /\ t_pc = "idle"
    /\ t_range = Range(Zero, Zero)
    /\ t_target = 0
    /\ ticker = None
    /\ iter = None
    /\ yielded = <<>>
    /\ t_done = FALSE
    /\ first_run = None
    /\ WIdle

SpecCalc == CInit /\ [][CNext]_vars

\* No Scale yet; any sequence of calls on a Scale follows, in either build.
SInit ==
    /\ s_pc = "new"
    /\ scale = None
    /\ s_op = [name |-> "none"]
    /\ RIdle /\ TIdle /\ CIdle /\ LIdle /\ PIdle /\ BIdle
    /\ debug_assertions \in BOOLEAN

SpecScale == SInit /\ [][SNext]_vars

\* A LineChart that druid has not added yet; WidgetAdded, then any sequence
\* of update and paint follows, in either build.
LInit ==
    /\ l_pc = "new"
    /\ l_data = None
    /\ line_chart = LineChart_new
    /\ l_op = [name |-> "none", first_x |-> FALSE, first_y |-> FALSE]
    /\ RIdle /\ TIdle /\ CIdle /\ SIdle /\ PIdle /\ BIdle
    /\ debug_assertions \in BOOLEAN

SpecLineChart == LInit /\ [][LNext]_vars

\* A PieChart that druid has not added yet; WidgetAdded, then any sequence
\* of update and paint follows.
PInit ==
    /\ p_pc = "new"
    /\ p_data = None
    /\ pie_chart = PieChart_new
    /\ p_op = [name |-> "none"]
    /\ RIdle /\ TIdle /\ CIdle /\ SIdle /\ LIdle /\ BIdle
    /\ debug_assertions = FALSE

SpecPieChart == PInit /\ [][PNext]_vars

\* A BoxPlot that was not painted yet, with the data of the application;
\* paints follow.
BInit ==
    /\ b_data \in DataPoints
    /\ b_call = [fn |-> "none"]
    /\ RIdle /\ TIdle /\ CIdle /\ SIdle /\ LIdle /\ PIdle
    /\ debug_assertions = FALSE

SpecBoxPlot == BInit /\ [][BNext]_vars

(***************************************************************************)
(* Claims about Range (SpecRange)                                          *)
(***************************************************************************)
HasNaN(vs) == \E i \in 1..Len(vs) : is_nan(vs[i])
RangeValid(r) == is_finite(r.min) /\ is_finite(r.max) /\ Le(r.min, r.max)

\* C3: every Range value reachable through Range::new, the From conversions,
\* from_iter, set_min, set_max and extend_to, with any f64 arguments,
\* satisfies -inf < min <= max < inf.
C3_RangeInvariant == range.some => RangeValid(range.v)

\* C4: building a Range from a sequence that contains a NaN returns, without
\* failing, the Range whose min and max are both NaN, and its size() is NaN.
C4_NaNSentinelReturned ==
    (r_op.name \in {"from_iter", "data_as_range"} /\ HasNaN(r_op.args)) =>
        /\ ~r_panicked
        /\ range.some
        /\ is_nan(range.v.min)
        /\ is_nan(range.v.max)
        /\ is_nan(size(range.v))

\* C5: building a Range from an empty sequence returns, without failing, a
\* Range with min = +inf and max = -inf.
C5_EmptyReturnsInverted ==
    r_op = Call("from_iter", <<>>) =>
        /\ ~r_panicked
        /\ range.some
        /\ range.v = Range(INFINITY, NEG_INFINITY)

(***************************************************************************)
(* Claims about the tick functions (SpecCalc)                              *)
(***************************************************************************)
\* The spacing before s among those calc_tick_spacing chooses between, for
\* base = pow_10_just_too_many(r, n): base before 2 x base, that before
\* 5 x base, that before 10 x base.
PrevNice(r, n, s) ==
    LET base == pow_10_just_too_many(r, n)
    IN  CASE s = Mul(Int2F(2), base) -> base
          [] s = Mul(Int2F(5), base) -> Mul(Int2F(2), base)
          [] OTHER -> Mul(Int2F(5), base)

\* C1: for a range with finite min < max and target_count >= 2, with
\* s = calc_tick_spacing(range, target_count): count_ticks(range, s) is at most
\* target_count, and count_ticks(range, s_minus) exceeds target_count for the
\* spacing s_minus before s in the sequence {1,2,5} x 10^n.
C1_Bracketing ==
    (/\ c_call.fn = "calc_tick_spacing"
     /\ Lt(c_range.min, c_range.max)
     /\ c_call.target_count >= 2) =>
        /\ count_ticks(c_range, c_call.ret) <= c_call.target_count
        /\ count_ticks(c_range, PrevNice(c_range, c_call.target_count, c_call.ret))
              > c_call.target_count

\* C2: for every valid Range and positive spacing, count_ticks equals
\* count_ticks_slow, ranges that contain no multiple of the spacing included.
C2_OracleEquivalence == c_call.fn = "count_ticks" => c_call.ret = c_call.slow

(***************************************************************************)
(* Claims about Ticker iteration (SpecTicker)                              *)
(***************************************************************************)
StrictlyIncreasing(ticks) ==
    \A i \in 1..(Len(ticks) - 1) : Lt(ticks[i].value, ticks[i + 1].value)

\* C6: the ticks of a Ticker over any valid range (min == max included) and
\* any target count have strictly increasing values.
C6_StrictlyIncreasing == StrictlyIncreasing(yielded)

\* C7: every Tick{t, value} of a Ticker over a valid range, for any target
\* count, has 0 <= t <= 1 and value == range.min() + t * range.size().
C7_RoundTrip ==
    \A i \in 1..Len(yielded) :
        /\ Le(Zero, yielded[i].t)
        /\ Le(yielded[i].t, One)
        /\ Eq(yielded[i].value, Add(t_range.min, Mul(yielded[i].t, size(t_range))))

IsPrefix(p, q) == Len(p) <= Len(q) /\ \A i \in 1..Len(p) : p[i] = q[i]
SpecialCaseTicks ==
    CASE t_target = 0 -> <<>>
      [] t_target = 1 -> <<Tick(Zero, t_range.min)>>
      [] t_target = 2 -> <<Tick(Zero, t_range.min), Tick(One, t_range.max)>>

\* C8: target 0 yields no tick; target 1 yields exactly [Tick{0, min}];
\* target 2 yields exactly [Tick{0, min}, Tick{1, max}], for every valid range
\* and whatever the spacing.
C8_SpecialCases ==
    t_target <= 2 =>
        /\ IsPrefix(yielded, SpecialCaseTicks)
        /\ t_done => yielded = SpecialCaseTicks

\* A finished iteration with target 2 over a range with min < max.
C8_Witness ==
    /\ t_target = 2
    /\ t_done
    /\ Len(yielded) = 2
    /\ Lt(t_range.min, t_range.max)

\* Whether the finite v is k * s for an integer k, s finite and positive.
IsMultiple(v, s) ==
    /\ is_finite(v)
    /\ v.m = 0 \/ (s.m # 0 /\ v.x >= s.x /\ v.m % s.m = 0)

\* floor(a / s) as a real quotient, a finite and s finite and positive (and 0
\* for s = 0, which has the one multiple 0).
FloorQuot(a, s) ==
    IF a.m = 0 \/ s.m = 0 THEN 0
    ELSE IF CmpMag(a, s) < 0 THEN (IF a.m > 0 THEN 0 ELSE -1)
    ELSE LET x0 == Min2(a.x, s.x)
         IN  (a.m * 2^(a.x - x0)) \div (s.m * 2^(s.x - x0))

\* The number of multiples of s in [min, max].
NumMultiples(s, min, max) == FloorQuot(max, s) + FloorQuot(Neg(min), s) + 1

\* C9: for target >= 3 and min < max, the ticks are exactly the multiples of
\* the spacing in [min, max], in order: the k-th value (from 0) is
\* calc_next_tick(min, spacing) + k * spacing with t = (value - min)/(max - min),
\* and the iteration stops at the first candidate whose t > 1, which is not
\* yielded.
C9_MultiplesOfSpacing ==
    (t_target >= 3 /\ Lt(t_range.min, t_range.max) /\ ticker.some) =>
        LET sp == ticker.v.spacing
            first == calc_next_tick(t_range.min, sp)
            kth(k) == Add(first, Mul(Int2F(k), sp))
            t_of(v) == Div(Sub(v, t_range.min), Sub(t_range.max, t_range.min))
        IN  /\ \A i \in 1..Len(yielded) :
                  /\ yielded[i] = Tick(t_of(kth(i - 1)), kth(i - 1))
                  /\ IsMultiple(yielded[i].value, sp)
                  /\ Le(t_range.min, yielded[i].value)
                  /\ Le(yielded[i].value, t_range.max)
            /\ StrictlyIncreasing(yielded)
            /\ t_done =>
                  /\ Len(yielded) = NumMultiples(sp, t_range.min, t_range.max)
                  /\ Gt(t_of(kth(Len(yielded))), One)

\* C10: for every valid range and every target_num_points, the number of
\* ticks a Ticker yields is at most target_num_points.
C10_TargetIsCap == Len(yielded) <= t_target

(***************************************************************************)
(* Further claims about the tick functions (SpecCalc)                      *)
(***************************************************************************)
\* The condition under which calc_tick_spacing supports no spacing.
NoSpacing(r, target_count) == target_count <= 1 \/ Eq(size(r), Zero)

\* C11: calc_tick_spacing returns NaN when target_count <= 1 or
\* range.size() == 0, and a value strictly greater than 0 in every other case.
C11_NaNOrPositive ==
    c_call.fn = "calc_tick_spacing" =>
        IF NoSpacing(c_range, c_call.target_count)
        THEN is_nan(c_call.ret)
        ELSE Gt(c_call.ret, Zero)

\* The exponents n for which 10^n is within the floats the model handles.
NiceExps == (-(TinyExp \div 3))..3
\* The relative distance up to which a float counts as equal to m x 10^n:
\* a few units in the last place, for the roundings of the computation.
NiceLo == Sub(One, Norm(1, 3 - Precision))
NiceHi == Add(One, Norm(1, 3 - Precision))

\* Whether s is m x 10^n for an m in {1, 2, 5} and an integer n, up to rounding.
IsNice(s) ==
    /\ is_finite(s)
    /\ Gt(s, Zero)
    /\ \E m \in {1, 2, 5}, n \in NiceExps :
          LET c == Mul(Int2F(m), powf10(Int2F(n)))
          IN  /\ Gt(c, Zero)
              /\ Le(Mul(c, NiceLo), s)
              /\ Le(s, Mul(c, NiceHi))

\* C12: for a range with min < max and target_count >= 2, the value
\* calc_tick_spacing returns is m x 10^n for an m in {1, 2, 5} and an integer n.
C12_NiceNumber ==
    (/\ c_call.fn = "calc_tick_spacing"
     /\ Lt(c_range.min, c_range.max)
     /\ c_call.target_count >= 2) => IsNice(c_call.ret)

\* 2 x base, 5 x base and 10 x base for base = pow_10_just_too_many(r, n), in
\* the order of probing.
Candidates(r, n) ==
    LET base == pow_10_just_too_many(r, n)
    IN  <<Mul(Int2F(2), base), Mul(Int2F(5), base), Mul(Int2F(10), base)>>

\* The place in Candidates(r, n) of the first candidate whose count_ticks is
\* at most n, the last place standing for "otherwise".
FirstWithinCap(r, n) ==
    CHOOSE i \in 1..3 :
        /\ i = 3 \/ count_ticks(r, Candidates(r, n)[i]) <= n
        /\ \A j \in 1..(i - 1) : count_ticks(r, Candidates(r, n)[j]) > n

IsPow10(b) ==
    /\ is_finite(b)
    /\ \E n \in NiceExps :
          LET c == powf10(Int2F(n))
          IN  Gt(c, Zero) /\ Le(Mul(c, NiceLo), b) /\ Le(b, Mul(c, NiceHi))

\* C14: for a range with min < max and target_count >= 2, with
\* base = pow_10_just_too_many(range, target_count): base is 10^x for an
\* integer x, count_ticks_slow(range, base) exceeds target_count, and
\* count_ticks_slow(range, 10 x base) and count_ticks(range, 10 x base) are at
\* most target_count, so that no debug assertion of calc_tick_spacing fires.
C14_AssertsHold ==
    (/\ c_call.fn = "calc_tick_spacing"
     /\ Lt(c_range.min, c_range.max)
     /\ c_call.target_count >= 2) =>
        LET base == pow_10_just_too_many(c_range, c_call.target_count)
            slow_1 == count_ticks_slow(c_range, base)
            slow_10 == count_ticks_slow(c_range, Mul(base, Int2F(10)))
        IN  /\ IsPow10(base)
            /\ slow_1 # Diverges
            /\ slow_1 > c_call.target_count
            /\ slow_10 # Diverges
            /\ slow_10 <= c_call.target_count
            /\ count_ticks(c_range, Mul(Int2F(10), base)) <= c_call.target_count
            /\ c_call.asserts = "ok"

\* k * s as a real number, for an integer k and a finite s: Norm keeps every
\* bit, so the result is a float only if it fits one.
ExactMultiple(k, s) == Norm(k * s.m, s.x)

\* The smallest multiple of s that is >= v, and the largest that is <= v, as
\* real numbers, for finite v and s > 0.
NextMultiple(v, s) == ExactMultiple(-FloorQuot(Neg(v), s), s)
PrevMultiple(v, s) == ExactMultiple(FloorQuot(v, s), s)

\* C15: calc_next_tick(v, spacing), for spacing > 0 and any v, is the smallest
\* exact multiple of spacing that is >= v, and is v when v is such a multiple.
C15_NextTickExact ==
    c_call.fn = "calc_next_tick" =>
        /\ IsMultiple(c_call.ret, c_call.spacing)
        /\ Ge(c_call.ret, c_call.v)
        /\ c_call.ret = NextMultiple(c_call.v, c_call.spacing)
        /\ IsMultiple(c_call.v, c_call.spacing) => c_call.ret = c_call.v

\* C16: calc_prev_tick(v, spacing), for spacing > 0 and any v, is the largest
\* exact multiple of spacing that is <= v, and is v when v is such a multiple.
C16_PrevTickExact ==
    c_call.fn = "calc_prev_tick" =>
        /\ IsMultiple(c_call.ret, c_call.spacing)
        /\ Le(c_call.ret, c_call.v)
        /\ c_call.ret = PrevMultiple(c_call.v, c_call.spacing)
        /\ IsMultiple(c_call.v, c_call.spacing) => c_call.ret = c_call.v

(***************************************************************************)
(* Further claims about Range (SpecRange)                                  *)
(***************************************************************************)
\* C17: extend_to(value) on a valid range sets min = value, leaves max and
\* returns true if value < min; else sets max = value, leaves min and returns
\* true if value > max; otherwise (value within [min, max], or NaN) returns
\* false and leaves both bounds.
C17_ExtendToEffect ==
    [][(r_op'.name = "extend_to" /\ range.some /\ RangeValid(range.v)) =>
          LET value == r_op'.args[1]
              old == range.v
          IN  IF Lt(value, old.min)
              THEN range' = Some(Range(value, old.max)) /\ r_ret' = Some(TRUE)
              ELSE IF Gt(value, old.max)
              THEN range' = Some(Range(old.min, value)) /\ r_ret' = Some(TRUE)
              ELSE range' = range /\ r_ret' = Some(FALSE)]_vars

\* extend_to(NaN) was called on a Range and returned false.
C17_Witness ==
    /\ r_op.name = "extend_to"
    /\ is_nan(r_op.args[1])
    /\ range.some
    /\ r_ret = Some(FALSE)

\* C18: Range::new(min, max) panics exactly when min is non-finite, max is
\* non-finite or min > max, and otherwise returns the Range of its arguments.
C18_NewPanicsExactly ==
    r_op.name = "new" =>
        LET min == r_op.args[1]
            max == r_op.args[2]
        IN  /\ r_panicked <=> (~is_finite(min) \/ ~is_finite(max) \/ Gt(min, max))
            /\ ~r_panicked => range = Some(Range(min, max))

\* Range::new was called with finite min > max and panicked.
C18_Witness ==
    /\ r_op.name = "new"
    /\ is_finite(r_op.args[1])
    /\ is_finite(r_op.args[2])
    /\ Gt(r_op.args[1], r_op.args[2])
    /\ r_panicked

\* C19: set_min(v) panics exactly when v is non-finite or v > max, and
\* otherwise sets min = v and leaves max; set_max(v) panics exactly when v is
\* non-finite or v < min, and otherwise sets max = v and leaves min.
C19_SettersPanicExactly ==
    [][/\ (r_op'.name = "set_min" /\ range.some /\ ~r_panicked) =>
             LET v == r_op'.args[1]
             IN  /\ r_panicked' <=> (~is_finite(v) \/ Gt(v, range.v.max))
                 /\ ~r_panicked' => range' = Some(Range(v, range.v.max))
       /\ (r_op'.name = "set_max" /\ range.some /\ ~r_panicked) =>
             LET v == r_op'.args[1]
             IN  /\ r_panicked' <=> (~is_finite(v) \/ Lt(v, range.v.min))
                 /\ ~r_panicked' => range' = Some(Range(range.v.min, v))]_vars

\* set_min was called with a finite value above max and panicked.
C19_Witness ==
    /\ r_op.name = "set_min"
    /\ is_finite(r_op.args[1])
    /\ range.some
    /\ Gt(r_op.args[1], range.v.max)
    /\ r_panicked

(***************************************************************************)
(* Further claims about Ticker iteration (SpecTicker)                      *)
(***************************************************************************)
\* C20: a Ticker over a range with min == max never fails; its spacing is
\* NaN; iterating it yields nothing for a target >= 3 and the sequences of
\* the special cases for a target of 0, 1 or 2.
C20_DegenerateRange ==
    Eq(t_range.min, t_range.max) =>
        /\ t_pc \notin {"panic", "hang"}
        /\ ticker.some => is_nan(ticker.v.spacing)
        /\ t_target >= 3 => yielded = <<>>
        /\ t_target <= 2 =>
              /\ IsPrefix(yielded, SpecialCaseTicks)
              /\ t_done => yielded = SpecialCaseTicks

\* A finished iteration, in a build with debug assertions, of a Ticker with a
\* target >= 3 over a range with min == max.
C20_Witness ==
    /\ Eq(t_range.min, t_range.max)
    /\ debug_assertions
    /\ t_target >= 3
    /\ ticker.some
    /\ t_done
    /\ yielded = <<>>

(***************************************************************************)
(* Claims about iterating a Ticker to its end (SpecTicker)                 *)
(***************************************************************************)
\* Calling next() on the iterator again and again returns None within n calls.
RECURSIVE EndsWithin(_, _)
EndsWithin(it, n) ==
    IF n = 0
    THEN FALSE
    ELSE LET res == TickerIter_next(it)
         IN  ~res.item.some \/ EndsWithin(res.iter, n - 1)

\* C21: tick enumeration is finite: for every valid range and every target
\* count, calling TickerIter::next again and again returns None after
\* finitely many Ticks: a whole iteration takes at most MaxTicks calls, so
\* that from an iterator that has yielded k Ticks at most MaxTicks - k calls
\* are left.
C21_Finite == iter.some => EndsWithin(iter.v, MaxTicks - Len(yielded))

\* An iteration by the spacing has ended after three Ticks or more.
C21_Witness ==
    /\ t_done
    /\ t_target >= 3
    /\ Lt(t_range.min, t_range.max)
    /\ Len(yielded) >= 3

C27_TickCount ==
    (t_done /\ t_target >= 3 /\ Lt(t_range.min, t_range.max)) =>
        /\ Len(yielded) = count_ticks(t_range, ticker.v.spacing)
        /\ Len(yielded) >= 1
(***************************************************************************)
(* Claims about Scale (SpecScale)                                          *)
(***************************************************************************)
\* The retained state, and the fields it is computed from being the same in
\* two Scales: Range, Direction and Rect derive PartialEq, so a Rect with a
\* NaN coordinate is not the same as any Rect.
Retained(sc) == <<sc.scale_ticker, sc.layouts, sc.max_layout>>
SameKeys(a, b) ==
    /\ a.direction = b.direction
    /\ Eq(a.data_range.min, b.data_range.min)
    /\ Eq(a.data_range.max, b.data_range.max)
    /\ ~Rect_ne(a.graph_bounds, b.graph_bounds)
Setters == {"set_direction", "include_zero", "set_graph_bounds", "set_axis_color"}

\* A retained Ticker is the Ticker of the current range, direction and bounds.
Coherent(sc) ==
    sc.scale_ticker.some =>
        sc.scale_ticker.v = Ticker_new(sc.data_range, max_labels(sc.direction, sc.graph_bounds))

\* C24: in every state reachable by Scale::new, the setters and
\* rebuild_if_needed, a retained scale_ticker equals Ticker::new(data_range,
\* direction.max_labels(graph_bounds)) of the current fields; and a setter
\* after which data_range, direction and graph_bounds are the same as
\* before leaves the retained state untouched.
C24_CacheCoherence ==
    /\ [](scale.some => Coherent(scale.v))
    /\ [][(scale.some /\ s_op'.name \in Setters /\ SameKeys(scale'.v, scale.v))
              => Retained(scale'.v) = Retained(scale.v)]_vars

\* A Ticker for three labels or more is retained and the last call was a
\* setter that changed nothing.
C24_Witness ==
    /\ s_pc = "live"
    /\ s_op.name \in Setters
    /\ scale.v.scale_ticker.some
    /\ scale.v.scale_ticker.v.target_num_points >= 3
    /\ Lt(scale.v.data_range.min, scale.v.data_range.max)

Ready(sc) == sc.scale_ticker.some /\ sc.layouts.some /\ sc.max_layout.some

\* C30: in every reachable state max_layout Some implies layouts Some implies
\* scale_ticker Some; after rebuild_if_needed returns all three are Some;
\* while they are, max_layout() and draw() do not panic and another
\* rebuild_if_needed returns and leaves the Scale as it is.
C30_RetainedReady ==
    scale.some =>
        LET sc == scale.v
        IN  /\ sc.max_layout.some => sc.layouts.some
            /\ sc.layouts.some => sc.scale_ticker.some
            /\ (s_op.name = "rebuild_if_needed" /\ s_pc = "live") => Ready(sc)
            /\ Ready(sc) =>
                  /\ ~Scale_max_layout(sc).panic
                  /\ \A draw_axis \in BOOLEAN, draw_labels \in BOOLEAN :
                        ~Scale_draw(sc, draw_axis, draw_labels).panic
                  /\ Scale_rebuild_outcome(sc, debug_assertions) = "ok"
                  /\ Scale_rebuild_if_needed(sc) = sc

\* rebuild_if_needed has returned with labels laid out, and max_layout() or
\* draw() was called after it.
C30_Witness ==
    /\ s_pc = "live"
    /\ s_op.name \in {"max_layout", "draw"}
    /\ Ready(scale.v)
    /\ Len(scale.v.layouts.v) >= 2

(***************************************************************************)
(* Claims about LineChart (SpecLineChart)                                  *)
(***************************************************************************)
\* The x positions of the data when x_data is None
DefaultX == resolve_x_data(None, Len(l_data.y_data))

\* C23: when x_data is None, the x positions generated for y_data of length
\* len are one per y value and none is greater than len, and a data range
\* just computed from them (x_range being None) ends at no more than len.
C23_DefaultXScale ==
    (l_pc = "added" /\ l_op.name = "lifecycle" /\ ~l_data.x_data.some) =>
        /\ Len(DefaultX) = Len(l_data.y_data)
        /\ \A i \in 1..Len(DefaultX) : Le(DefaultX[i], Int2F(Len(l_data.y_data)))
        /\ ~l_data.x_range.some =>
               /\ line_chart.data_range_x.v.min = Zero
               /\ Le(line_chart.data_range_x.v.max, Int2F(Len(l_data.y_data)))

\* The range an axis is to show: the explicit range of the data if there is
\* one, otherwise the range of the current data
EffectiveX == IF l_data.x_range.some THEN Ret(l_data.x_range.v)
              ELSE from_iter(resolve_x_data(l_data.x_data, Len(l_data.y_data)))
EffectiveY == IF l_data.y_range.some THEN Ret(l_data.y_range.v) ELSE from_iter(l_data.y_data)

\* C25: after WidgetAdded and any updates, each retained Scale is None or
\* was built from the current effective range of its axis.
C25_ScalesCurrent ==
    l_pc = "added" =>
        /\ line_chart.x_scale.some => Ret(line_chart.x_scale.v.data_range) = EffectiveX
        /\ line_chart.y_scale.some => Ret(line_chart.y_scale.v.data_range) = EffectiveY

\* C28: after WidgetAdded and any updates, the explicit range or the data
\* range of each axis is Some, so x_range(data) and y_range(data) are Some
\* when rebuild_if_needed unwraps them.
C28_RangeAvailable ==
    l_pc = "added" =>
        /\ l_data.x_range.some \/ line_chart.data_range_x.some
        /\ l_data.y_range.some \/ line_chart.data_range_y.some
        /\ x_range(line_chart, l_data).some
        /\ y_range(line_chart, l_data).some

\* An update switched both explicit ranges from Some to None on a widget
\* that had computed no data range yet
C28_Witness ==
    /\ l_pc = "added"
    /\ l_op.name = "update"
    /\ l_op.first_x /\ l_op.first_y
    /\ ~l_data.x_range.some /\ ~l_data.y_range.some

(***************************************************************************)
(* Claims about PieChart (SpecPieChart)                                    *)
(***************************************************************************)
\* C26: after WidgetAdded and any updates, category_layouts has at least as
\* many layouts as there are category_labels, layout i carries the text of
\* the current label i, and paint draws exactly the layouts of the labels.
C26_LabelLayouts ==
    p_pc = "added" =>
        /\ Len(pie_chart.category_layouts) >= Len(p_data.category_labels)
        /\ \A i \in 1..Len(p_data.category_labels) :
               pie_chart.category_layouts[i] = Some(p_data.category_labels[i])
        /\ p_op.name = "paint" =>
               p_op.drawn = [i \in 1..Len(p_data.category_labels) |->
                                Some(p_data.category_labels[i])]

\* A paint after the labels grew and then shrank: there are more layouts
\* than labels
C26_Witness ==
    /\ p_pc = "added"
    /\ p_op.name = "paint"
    /\ p_data.category_labels # <<>>
    /\ Len(pie_chart.category_layouts) = MaxLabels
    /\ Len(pie_chart.category_layouts) > Len(p_data.category_labels)

(***************************************************************************)
(* Claims about BoxPlot (SpecBoxPlot)                                      *)
(***************************************************************************)
\* C29: for every non-empty data vector, sorted by paint, and every p of
\* 0.1, 0.25, 0.5, 0.75, 0.9, quantile(data, p) does not panic and returns
\* a value between the data minimum and maximum.
C29_QuantileInRange ==
    (b_call.fn = "paint" /\ b_data # <<>>) =>
        \A i \in 1..Len(Quantiles) :
            /\ ~b_call.quantiles[i].panic
            /\ Le(b_call.sorted[1], b_call.quantiles[i].v)
            /\ Le(b_call.quantiles[i].v, b_call.sorted[Len(b_call.sorted)])

====
